---- MODULE Spec2Model ----
(***************************************************************************)
(* The turn-sequencing engine of the sequential discussion service:        *)
(* SequentialSessionService (startSession, advance, next, pause, resume,   *)
(* skip, supplement) driving one session, with the responder calls it has  *)
(* in flight.  One step of the model is one run-to-completion piece of the *)
(* single-threaded event loop: a whole command handler up to its first     *)
(* await, or the whole continuation of one settled responder call.         *)
(***************************************************************************)
EXTENDS Integers, Sequences, FiniteSets, Bags, TLC

\* Bounds of the model.
MaxSpeakers == 3
MaxSize == 7
MaxPending == 2
\* bounds of the event bus: session ids, listeners, subscribe calls and
\* events emitted
NumSessions == 2
NumListeners == 2
MaxSubscribes == 2
MaxEvents == 2
MaxStreamEvents == 2
MaxHeartbeats == 1

VARIABLES
  session,      \* the SequentialSession object (state "NONE": not started)
  store,        \* InMemoryStore: whether it holds the session's room / the session
  pending,      \* bag of responder calls in flight
  lastCmd,      \* the handler that ran in the last step: how it ended, how often
                \* it refreshed updatedAt, how many state events it emitted and
                \* the speaker of the complete event it emitted (0: none)
  lastEvent,    \* the session as the most recent state event carried it
  everTerminal  \* history: the session state has been COMPLETED or ERROR

engineVars == <<session, store, pending, lastCmd, lastEvent, everTerminal>>

VARIABLES
  listeners,    \* SessionEventBus.listeners: session id -> its bucket (0: none)
  buckets,      \* the Set objects created so far: bucket -> listeners in it
  handles,      \* the unsubscribe functions returned so far
  subscribes,   \* history: the number of subscribe calls so far
  active,       \* history: the handles of the subscriptions not yet ended
  received,     \* listener -> the events it was called with, in order
  emitted       \* history: every event emitted, with the listeners that were
                \* subscribed to its session id at that moment

busVars == <<listeners, buckets, handles, subscribes, active, received, emitted>>

VARIABLES
  streams       \* connection of the stream endpoint (its listener's id) -> its
                \* status, the session it asked for, what was written to its
                \* response (wire), its unsubscribe function, and history: the
                \* number of events emitted before it opened (from) and
                \* the length of wire when it closed

streamVars == <<streams>>

vars == <<engineVars, busVars, streamVars>>

SessionStates ==
  {"INITIALIZING", "AI_THINKING", "AI_SPEAKING", "AI_FINISHED",
   "SUPPLEMENTING", "PAUSED", "COMPLETED", "ERROR"}

Terminal == {"COMPLETED", "ERROR"}

NoSession ==
  [state |-> "NONE", currentIndex |-> 0, speakers |-> <<>>,
   messages |-> <<>>]

NoCall ==
  [kind |-> "none", speaker |-> 0, followup |-> 0, fallback |-> "NONE",
   preState |-> "NONE", preCount |-> 0, preLen |-> 0]

\* What a handler threads through its statements: the session object, the
\* store, and since the handler began the number of times it assigned a new
\* Date() to session.updatedAt (u), the number of state events it emitted (e),
\* the session as the latest state event carried it (ev) and the speaker of
\* the complete event it emitted (done).
World ==
  [s |-> session, st |-> store, u |-> 0, e |-> 0, ev |-> lastEvent, done |-> 0]

----------------------------------------------------------------------------
(* Helpers of the service *)

NumSpeakers(w) == Len(w.s.speakers)

\* session.currentIndex >= session.speakers.length ? "COMPLETED" : "AI_FINISHED"
nextState(w) ==
  IF w.s.currentIndex >= NumSpeakers(w) THEN "COMPLETED" ELSE "AI_FINISHED"

\* store.saveSession(session)
saveSession(w) == [w EXCEPT !.st.session = TRUE]

\* store.getChatRoom(session.chatRoomId) finds no room: chatRoomOf throws
RoomMissing(w) == ~w.st.room

\* this.callbacks.onStateChange?.(session): a state event carrying the session
onStateChange(w) == [w EXCEPT !.e = @ + 1, !.ev = w.s]

\* this.callbacks.onComplete?.(response, session, speaker)
onComplete(w, speaker) == [w EXCEPT !.done = speaker]

updateSession(w, st) ==
  onStateChange(saveSession([w EXCEPT !.s.state = st, !.u = @ + 1]))

updateSpeaker(w, id, st) ==
  IF id \notin 1..NumSpeakers(w)
    THEN w
    ELSE onStateChange(saveSession([w EXCEPT !.s.speakers[id].status = st,
                                             !.u = @ + 1]))

pushMessage(w, m) == [w EXCEPT !.s.messages = Append(@, m)]

\* ids come from randomUUID: fresh for every message of the log
FreshId(w) == Len(w.s.messages) + 1

Message(id, role, speakerId, parentId, supplemental) ==
  [id |-> id, role |-> role, speakerId |-> speakerId,
   parentId |-> parentId, supplemental |-> supplemental]

\* getLast(session.messages.filter((msg) => msg.speakerId === aiMemberId))?.id
LastMessageIdOf(w, id) ==
  LET own == {i \in 1..Len(w.s.messages) : w.s.messages[i].speakerId = id}
  IN IF own = {} THEN 0
     ELSE w.s.messages[CHOOSE i \in own : \A j \in own : j <= i].id

Result(w, outcome, call) == [w |-> w, outcome |-> outcome, call |-> call]

----------------------------------------------------------------------------
(* State guards of the commands *)

\* a variant of advance's guard that lets a paused session be driven on
advanceRejects_onlyWhileSpeaking(st) == st = "AI_SPEAKING"

advanceRejects(st) == st = "PAUSED" \/ st = "AI_SPEAKING"

advanceNoOp(st) == st = "COMPLETED" \/ st = "ERROR"

\* a variant of next's guard that only refuses while a speaker is responding
nextRejects_onlyWhileSpeaking(st) == st = "AI_SPEAKING"

nextRejects(st) == st # "AI_FINISHED"

\* a variant of pause's guard that lets a session in ERROR be paused
pauseRejects_onlyCompleted(st) == st = "COMPLETED"

pauseRejects(st) == st \in {"COMPLETED", "ERROR"}

resumeRejects(st) == st # "PAUSED"

skipRejects(st) == st # "AI_FINISHED"

\* a variant of supplement's guards without the test for PAUSED
supplementRejects_onlyUnknownSpeaker(w, aiMemberId) ==
  aiMemberId \notin 1..NumSpeakers(w)

supplementRejects(w, aiMemberId) ==
  \/ aiMemberId \notin 1..NumSpeakers(w)      \* speaker not found
  \/ w.s.state = "PAUSED"

----------------------------------------------------------------------------
(* The handlers, each up to its first await.  A handler yields the world   *)
(* it leaves, how it ended, and the responder call it left in flight.      *)

TurnCall(sp) == [NoCall EXCEPT !.kind = "turn", !.speaker = sp]

\* a variant of advance without the test for the end of the speaker list
advance_withoutEndTest(w) ==
  IF advanceRejects(w.s.state) THEN Result(w, "rejected", NoCall)
  ELSE IF advanceNoOp(w.s.state) THEN Result(w, "noop", NoCall)
  ELSE
    LET sp == w.s.currentIndex + 1
        w1 == updateSpeaker(w, sp, "speaking")
        w2 == updateSession(w1, "AI_THINKING")
        w3 == updateSession(w2, "AI_SPEAKING")
    IN IF RoomMissing(w2)
         THEN Result(w2, "threw", NoCall)
         ELSE Result(w3, "started", TurnCall(sp))

advance(w) ==
  IF advanceRejects(w.s.state) THEN Result(w, "rejected", NoCall)
  ELSE IF advanceNoOp(w.s.state) THEN Result(w, "noop", NoCall)
  ELSE IF w.s.currentIndex >= NumSpeakers(w)
    THEN Result(updateSession(w, "COMPLETED"), "completed", NoCall)
  ELSE
    LET sp == w.s.currentIndex + 1
        w1 == updateSpeaker(w, sp, "speaking")
        w2 == updateSession(w1, "AI_THINKING")
        w3 == updateSession(w2, "AI_SPEAKING")
    IN IF RoomMissing(w2)      \* buildMessages: chatRoomOf throws, outside the try
         THEN Result(w2, "threw", NoCall)
         ELSE Result(w3, "started", TurnCall(sp))

\* chatRoom.aiMembers.map((member) => ({ ... }))
speakersOf(aiMembers) ==
  [i \in 1..Len(aiMembers) |->
     [aiMemberId |-> aiMembers[i].id, order |-> aiMembers[i].order,
      status |-> "waiting", supplementCount |-> 0]]

\* the user question startSession logs
Question == Message(1, "user", 0, 0, FALSE)

startSession(w, aiMembers) ==
  LET created ==
        [state |-> "INITIALIZING",
         currentIndex |-> 0,
         speakers |-> speakersOf(aiMembers),
         messages |-> <<Question>>]
      \* store.saveSession(session), then onStateChange
      w0 == onStateChange(saveSession([w EXCEPT !.s = created]))
  IN advance(w0)                         \* void this.advance(session.id)

next(w) ==
  IF nextRejects(w.s.state) THEN Result(w, "rejected", NoCall)
  ELSE IF w.s.currentIndex >= NumSpeakers(w)
    THEN Result(updateSession(w, "COMPLETED"), "completed", NoCall)
  ELSE advance(w)

\* a variant of pause without the early return for a session already PAUSED
pause_withoutPausedTest(w) ==
  IF pauseRejects(w.s.state) THEN Result(w, "rejected", NoCall)
  ELSE Result(updateSession(w, "PAUSED"), "ok", NoCall)

pause(w) ==
  IF pauseRejects(w.s.state) THEN Result(w, "rejected", NoCall)
  ELSE IF w.s.state = "PAUSED" THEN Result(w, "noop", NoCall)
  ELSE Result(updateSession(w, "PAUSED"), "ok", NoCall)

\* a variant of resume that drives the next turn itself
resume_drivesNextTurn(w) ==
  IF resumeRejects(w.s.state) THEN Result(w, "rejected", NoCall)
  ELSE advance(updateSession(w, nextState(w)))

resume(w) ==
  IF resumeRejects(w.s.state) THEN Result(w, "rejected", NoCall)
  ELSE Result(updateSession(w, nextState(w)), "ok", NoCall)

skip(w) ==
  IF skipRejects(w.s.state) THEN Result(w, "rejected", NoCall)
  ELSE IF w.s.currentIndex >= NumSpeakers(w)
    THEN Result(updateSession(w, "COMPLETED"), "completed", NoCall)
  ELSE
    LET sp == w.s.currentIndex + 1
        w1 == updateSpeaker(w, sp, "skipped")
        w2 == [w1 EXCEPT !.s.currentIndex = @ + 1]
    IN Result(updateSession(w2, nextState(w2)), "ok", NoCall)

Max(a, b) == IF a >= b THEN a ELSE b

\* a variant of the .catch handler that also takes the follow-up (and what
\* was logged after it) out of the log
supplementRejected_truncatesLog(w, c) ==
  LET w1 == [w EXCEPT !.s.speakers[c.speaker].supplementCount = Max(0, @ - 1),
                      !.s.messages = SubSeq(@, 1, c.preLen)]
  IN updateSession(w1, c.fallback)

\* a variant of the .catch handler that does not take the count back
supplementRejected_keepsCount(w, c) == updateSession(w, c.fallback)

\* the .catch handler of supplement
supplementRejected(w, c) ==
  LET w1 == [w EXCEPT !.s.speakers[c.speaker].supplementCount = Max(0, @ - 1)]
  IN updateSession(w1, c.fallback)

\* the follow-up user message supplement logs
Followup(w, aiMemberId) ==
  Message(FreshId(w), "user", 0, LastMessageIdOf(w, aiMemberId), FALSE)

\* supplement once its guards have passed
supplementAccepted(w, aiMemberId) ==
  LET followup == Followup(w, aiMemberId)
      w1 == pushMessage(w, followup)
      w2 == updateSession(w1, "SUPPLEMENTING")
      w3 == [w2 EXCEPT !.s.speakers[aiMemberId].supplementCount = @ + 1]
      call == [kind |-> "supplement", speaker |-> aiMemberId,
               followup |-> followup.id, fallback |-> nextState(w3),
               \* history: the session as it was when supplement was called
               preState |-> w.s.state,
               preCount |-> w.s.speakers[aiMemberId].supplementCount,
               preLen |-> Len(w.s.messages)]
  IN IF RoomMissing(w3)
       \* generateSupplement: chatRoomOf throws before the responder is
       \* called; the promise is rejected and the .catch handler runs
       THEN Result(supplementRejected(w3, call), "failed", NoCall)
       ELSE Result(w3, "started", call)

\* a variant of supplement that tests for PAUSED only after it has logged the
\* follow-up message
supplement_pausedTestAfterPush(w, aiMemberId) ==
  IF aiMemberId \notin 1..NumSpeakers(w) THEN Result(w, "rejected", NoCall)
  ELSE IF w.s.state = "PAUSED"
    THEN Result(pushMessage(w, Followup(w, aiMemberId)), "rejected", NoCall)
  ELSE supplementAccepted(w, aiMemberId)

supplement(w, aiMemberId) ==
  IF supplementRejects(w, aiMemberId) THEN Result(w, "rejected", NoCall)
  ELSE supplementAccepted(w, aiMemberId)

----------------------------------------------------------------------------
(* The continuations that run when a responder call settles *)

\* a variant of the continuation that sets currentIndex from the position of
\* the speaker that answered instead of incrementing it
turnResolved_indexFromSpeaker(w, c) ==
  LET w1 == pushMessage(w, Message(FreshId(w), "assistant", c.speaker, 0, FALSE))
      w2 == updateSpeaker(w1, c.speaker, "finished")
      w3 == [w2 EXCEPT !.s.currentIndex = c.speaker]
  IN onComplete(updateSession(w3, nextState(w3)), c.speaker)

\* advance after `await adapter.streamMessage(...)` resolved
turnResolved(w, c) ==
  LET w1 == pushMessage(w, Message(FreshId(w), "assistant", c.speaker, 0, FALSE))
      w2 == updateSpeaker(w1, c.speaker, "finished")
      w3 == [w2 EXCEPT !.s.currentIndex = @ + 1]
  IN onComplete(updateSession(w3, nextState(w3)), c.speaker)

\* a variant of the catch block that recovers the way supplement's does
turnRejected_recovers(w, c) == updateSession(w, nextState(w))

\* advance's catch block
turnRejected(w, c) == updateSession(w, "ERROR")

\* a variant of the continuation that parents the answer to the last message
\* of the log instead of the follow-up it was given
supplementResolved_parentIsLastMessage(w, c) ==
  LET parent == w.s.messages[Len(w.s.messages)].id
      w1 == pushMessage(w, Message(FreshId(w), "assistant", c.speaker, parent, TRUE))
  IN updateSession(w1, nextState(w1))

\* a variant of the continuation that ends like a main turn: it marks the
\* speaker finished and moves on to the next speaker
supplementResolved_endsLikeTurn(w, c) ==
  LET w1 == pushMessage(w, Message(FreshId(w), "assistant", c.speaker, c.followup, TRUE))
      w2 == updateSpeaker(w1, c.speaker, "finished")
      w3 == [w2 EXCEPT !.s.currentIndex = @ + 1]
  IN updateSession(w3, nextState(w3))

\* generateSupplement after `await adapter.sendMessage(...)` resolved
supplementResolved(w, c) ==
  LET w1 == pushMessage(w, Message(FreshId(w), "assistant", c.speaker, c.followup, TRUE))
  IN updateSession(w1, nextState(w1))

----------------------------------------------------------------------------
(* The store *)

\* InMemoryStore.reset(): chatRooms.clear(); sessions.clear()
reset(st) == [room |-> FALSE, session |-> FALSE]

\* the room as the HTTP layer creates it (members numbered in order) and as
\* createChatRoom stores it, sorted by order; only isEnabled varies
Rooms ==
  {[i \in 1..n |-> [id |-> i, order |-> i, isEnabled |-> en[i]]] :
     n \in 0..MaxSpeakers, en \in [1..MaxSpeakers -> BOOLEAN]}

----------------------------------------------------------------------------
(* The event bus *)

SessionIds == 1..NumSessions

ListenerIds == 1..NumListeners

\* the session id emit looks the bucket up by: event.session.id for a state
\* event, event.sessionId for a chunk or complete event
sessionIdOf(event) == event.sessionId

\* the listeners emit calls for an event: those of the bucket the map holds
\* for the event's session id
targets(event) ==
  IF listeners[sessionIdOf(event)] = 0 THEN {}
  ELSE buckets[listeners[sessionIdOf(event)]]

\* emit(event): every target is called with the event
emit(event) ==
  [l \in ListenerIds |->
     IF l \in targets(event) THEN Append(received[l], event) ELSE received[l]]

\* the bucket subscribe adds the listener to: the one of the map, or a new Set
bucketFor(sessionId) ==
  IF listeners[sessionId] = 0 THEN Len(buckets) + 1 ELSE listeners[sessionId]

\* the unsubscribe function subscribe returns: it holds its bucket, the
\* session id and the listener
Handle(bucket, sessionId, listener) ==
  [bucket |-> bucket, sessionId |-> sessionId, listener |-> listener]

\* history: listener l has a subscription to sessionId that was not ended
Subscribed(l, sessionId) ==
  \E h \in active : h.listener = l /\ h.sessionId = sessionId

InitBus ==
  /\ listeners = [s \in SessionIds |-> 0]
  /\ buckets = <<>>
  /\ handles = {}
  /\ subscribes = 0
  /\ active = {}
  /\ received = [l \in ListenerIds |-> <<>>]
  /\ emitted = <<>>

\* subscribe(sessionId, listener)
subscribe(sessionId, listener) ==
  LET b == bucketFor(sessionId)
      h == Handle(b, sessionId, listener)
  IN /\ subscribes < MaxSubscribes
     /\ subscribes' = subscribes + 1
     /\ listeners' = [listeners EXCEPT ![sessionId] = b]
     /\ buckets' = IF b > Len(buckets) THEN Append(buckets, {listener})
                   ELSE [buckets EXCEPT ![b] = @ \cup {listener}]
     /\ handles' = handles \cup {h}
     /\ active' = active \cup {h}

\* the unsubscribe function h runs
unsubscribe(h) ==
  LET left == buckets[h.bucket] \ {h.listener}
  IN /\ buckets' = [buckets EXCEPT ![h.bucket] = left]
     /\ listeners' = IF left = {} THEN [listeners EXCEPT ![h.sessionId] = 0]
                     ELSE listeners
     /\ active' = active \ {h}

\* history of emit(event): the event and who was subscribed to its session
Emitted(event) ==
  Append(emitted,
         [event |-> event,
          to |-> {l \in ListenerIds : Subscribed(l, sessionIdOf(event))}])

Subscribe ==
  \E sessionId \in SessionIds, listener \in ListenerIds :
    /\ subscribe(sessionId, listener)
    /\ UNCHANGED <<received, emitted, engineVars, streamVars>>

\* an unsubscribe function is called (for the first time or again)
Unsubscribe ==
  \E h \in handles :
    /\ unsubscribe(h)
    /\ UNCHANGED <<handles, subscribes, received, emitted, engineVars, streamVars>>

Emit ==
  \E sessionId \in SessionIds :
    \* the n-th event emitted, for this session id
    LET event == [sessionId |-> sessionId, n |-> Len(emitted) + 1]
    IN /\ Len(emitted) < MaxEvents
       /\ received' = emit(event)
       /\ emitted' = Emitted(event)
       /\ UNCHANGED <<listeners, buckets, handles, subscribes, active,
                      engineVars, streamVars>>

NextBus ==
  \/ Subscribe
  \/ Unsubscribe
  \/ Emit

----------------------------------------------------------------------------
(* The stream endpoint: GET /api/sessions/:sessionId/stream *)

EventTypes == {"state", "chunk", "complete"}

\* the type of the n-th event: the engine's callbacks in the order of a turn
\* (onStateChange, onChunk, onComplete)
typeOf(n) == <<"state", "chunk", "complete">>[((n - 1) % 3) + 1]

NoStream ==
  [status |-> "idle", sessionId |-> 0, wire |-> <<>>, unsubscribe |-> 0,
   from |-> 0, closedAt |-> 0]

\* write(event, payload) on the response of a connection
write(stream, event, payload) ==
  [stream EXCEPT !.wire = Append(@, [event |-> event, payload |-> payload])]

\* the listener the endpoint subscribes: it writes a state, chunk or complete
\* event under the name of its type (the payload is identified by the
\* event's place in the emission order)
forward(stream, event) ==
  IF event.type \in EventTypes THEN write(stream, event.type, event.n)
  ELSE stream

\* the handler writes the snapshot of the session as it is now (identified by
\* the number of events emitted so far)
snapshotWritten(stream) == write(stream, "session", Len(emitted))

InitStreams == streams = [l \in ListenerIds |-> NoStream]

\* Connections and sessions are interchangeable: connections are numbered in
\* the order they open and sessions in the order the endpoint first meets
\* them (in a request or in an event).
Opened == {l \in ListenerIds : streams[l].status # "idle"}

Met ==
  {streams[l].sessionId : l \in Opened}
    \cup {sessionIdOf(emitted[k].event) : k \in 1..Len(emitted)}

NextMet == {s \in SessionIds : s <= Cardinality(Met) + 1}

\* the request handler, for a session getSession finds: the snapshot, then
\* subscribe (a session that is not found is answered with 404: nothing is
\* written or subscribed)
OpenStream ==
  \E sessionId \in NextMet, l \in ListenerIds :
    /\ streams[l].status = "idle"
    /\ l = Cardinality(Opened) + 1
    /\ subscribe(sessionId, l)
    /\ streams' =
         [streams EXCEPT
            ![l] = snapshotWritten(
                     [@ EXCEPT !.status = "open",
                               !.sessionId = sessionId,
                               !.from = Len(emitted),
                               !.unsubscribe =
                                  Handle(bucketFor(sessionId), sessionId, l)])]
    /\ UNCHANGED <<received, emitted, engineVars>>

\* the engine callbacks emit an event on the bus while connections are open
EmitToStreams ==
  \E sessionId \in NextMet :
    LET event == [sessionId |-> sessionId, n |-> Len(emitted) + 1,
                  type |-> typeOf(Len(emitted) + 1)]
    IN /\ Len(emitted) < MaxStreamEvents
       /\ received' = emit(event)
       /\ emitted' = Emitted(event)
       /\ streams' = [l \in ListenerIds |->
                        IF l \in targets(event) THEN forward(streams[l], event)
                        ELSE streams[l]]
       /\ UNCHANGED <<listeners, buckets, handles, subscribes, active, engineVars>>

\* the heartbeats written so far, on connection l and on all of them
RECURSIVE Heartbeats(_)
Heartbeats(l) ==
  IF l = 0 THEN 0
  ELSE Heartbeats(l - 1)
         + Len(SelectSeq(streams[l].wire, LAMBDA x : x.event = "heartbeat"))

\* the interval timer of an open connection fires
Heartbeat ==
  \E l \in ListenerIds :
    /\ streams[l].status = "open"
    /\ Heartbeats(NumListeners) < MaxHeartbeats
    /\ streams' = [streams EXCEPT ![l] = write(@, "heartbeat", 0)]
    /\ UNCHANGED <<busVars, engineVars>>

\* a variant of the close handler that leaves the listener subscribed
streamClosed_keepsListener(l) ==
  UNCHANGED <<listeners, buckets, active>>

\* the close handler of connection l: clearInterval, unsubscribe(), res.end()
streamClosed(l) == unsubscribe(streams[l].unsubscribe)

CloseStream ==
  \E l \in ListenerIds :
    /\ streams[l].status = "open"
    /\ streamClosed(l)
    /\ streams' = [streams EXCEPT ![l].status = "closed",
                                  ![l].closedAt = Len(streams[l].wire)]
    /\ UNCHANGED <<handles, subscribes, received, emitted, engineVars>>

NextStream ==
  \/ OpenStream
  \/ EmitToStreams
  \/ Heartbeat
  \/ CloseStream

----------------------------------------------------------------------------
(* The state machine *)

Init ==
  /\ InitBus
  /\ InitStreams
  /\ session = NoSession
  /\ store = [room |-> FALSE, session |-> FALSE]
  /\ pending = EmptyBag
  /\ lastCmd = [op |-> "none", arg |-> 0, outcome |-> "none", call |-> NoCall,
                updates |-> 0, events |-> 0, complete |-> 0]
  /\ lastEvent = NoSession
  /\ everTerminal = FALSE

Calls(r) == IF r.call.kind = "none" THEN EmptyBag ELSE SetToBag({r.call})

\* The longest log explored: speakers and messages together stay within
\* MaxSize, so a session of fewer speakers is followed through a longer log.
LogBound(w) == MaxSize - NumSpeakers(w)

\* The model explores the runs in which commands keep within the bounds;
\* a command that is rejected, and a settling call, are never held back.
WithinBounds(r) ==
  \/ r.outcome = "rejected"
  \/ /\ BagCardinality(pending (+) Calls(r)) <= MaxPending
     \* every call in flight appends one more message when it resolves
     /\ Len(r.w.s.messages) + BagCardinality(pending (+) Calls(r)) <= LogBound(r.w)

\* A command handler ran with argument arg: r is what it left.
Command(op, arg, r) ==
  /\ WithinBounds(r)
  /\ session' = r.w.s
  /\ store' = r.w.st
  /\ pending' = pending (+) Calls(r)
  /\ lastCmd' = [op |-> op, arg |-> arg, outcome |-> r.outcome, call |-> r.call,
                 updates |-> r.w.u, events |-> r.w.e, complete |-> r.w.done]
  /\ lastEvent' = r.w.ev
  /\ everTerminal' = (everTerminal \/ r.w.s.state \in Terminal)
  /\ UNCHANGED <<busVars, streamVars>>

\* The continuation of call c ran: w is what it left, and the promise of
\* the handler that awaited c resolves or rejects (outcome).
Settle(op, outcome, c, w) ==
  /\ session' = w.s
  /\ store' = w.st
  /\ pending' = pending (-) SetToBag({c})
  /\ lastCmd' = [op |-> op, arg |-> 0, outcome |-> outcome, call |-> c,
                 updates |-> w.u, events |-> w.e, complete |-> w.done]
  /\ lastEvent' = w.ev
  /\ everTerminal' = (everTerminal \/ w.s.state \in Terminal)
  /\ UNCHANGED <<busVars, streamVars>>

\* getSession(sessionId) finds the session
Exists == store.session

\* a room is created in the store and a session started on it
StartSession ==
  /\ session = NoSession
  /\ \E room \in Rooms :
       Command("startSession", room,
               startSession([World EXCEPT !.st.room = TRUE], room))

\* store.reset(), as the tests call it between runs
StoreReset ==
  /\ store.room \/ store.session
  /\ store' = reset(store)
  /\ lastCmd' = [op |-> "reset", arg |-> 0, outcome |-> "ok", call |-> NoCall,
                 updates |-> 0, events |-> 0, complete |-> 0]
  /\ UNCHANGED <<session, pending, lastEvent, everTerminal, busVars, streamVars>>

Advance == Exists /\ Command("advance", 0, advance(World))

Next_ == Exists /\ Command("next", 0, next(World))

Pause == Exists /\ Command("pause", 0, pause(World))

Resume == Exists /\ Command("resume", 0, resume(World))

Skip == Exists /\ Command("skip", 0, skip(World))

Supplement ==
  /\ Exists
  /\ \E aiMemberId \in 0..NumSpeakers(World) :
       Command("supplement", aiMemberId, supplement(World, aiMemberId))

TurnResolves ==
  \E c \in BagToSet(pending) :
    c.kind = "turn" /\ Settle("turnResolved", "resolves", c, turnResolved(World, c))

TurnRejects ==
  \E c \in BagToSet(pending) :
    c.kind = "turn" /\ Settle("turnRejected", "rejects", c, turnRejected(World, c))

SupplementResolves ==
  \E c \in BagToSet(pending) :
    c.kind = "supplement" /\ Settle("supplementResolved", "resolves", c, supplementResolved(World, c))

SupplementRejects ==
  \E c \in BagToSet(pending) :
    c.kind = "supplement" /\ Settle("supplementRejected", "rejects", c, supplementRejected(World, c))

Next ==
  \/ StartSession
  \/ StoreReset
  \/ Advance
  \/ Next_
  \/ Pause
  \/ Resume
  \/ Skip
  \/ Supplement
  \/ TurnResolves
  \/ TurnRejects
  \/ SupplementResolves
  \/ SupplementRejects

Spec == Init /\ [][Next]_vars

\* the event bus on its own
SpecBus == Init /\ [][NextBus]_vars

SpecStream == Init /\ [][NextStream]_vars

\* A caller who drives a session to its end and a responder that always
\* answers: the caller may pause, resumes a paused session and issues next or
\* skip when the session waits for it; every call returns successfully.
NextProgress ==
  \/ StartSession
  \/ Pause
  \/ Resume
  \/ Next_
  \/ Skip
  \/ TurnResolves

SpecProgress ==
  /\ Init
  /\ [][NextProgress]_vars
  /\ WF_vars(TurnResolves)
  /\ SF_vars(session.state = "AI_FINISHED" /\ (Next_ \/ Skip))
  /\ SF_vars(session.state = "PAUSED" /\ Resume)

----------------------------------------------------------------------------
(* Vocabulary of the properties *)

InFlight == BagCardinality(pending)

SpeakerIds == 1..Len(session.speakers)

\* the main-turn (non-supplemental) assistant messages of speaker i in the log
MainTurnMessages(i) ==
  {k \in 1..Len(session.messages) :
     /\ session.messages[k].role = "assistant"
     /\ session.messages[k].speakerId = i
     /\ ~session.messages[k].supplemental}

Speaking == {i \in SpeakerIds : session.speakers[i].status = "speaking"}

\* the step started a main turn (a handler left a streaming call in flight)
TurnStarted == lastCmd'.outcome = "started" /\ lastCmd'.call.kind = "turn"

----------------------------------------------------------------------------
(* Properties *)

\* C1: at any moment at most one responder call (one main turn or one
\* supplement) is in flight for the session.
C1_AtMostOneCallInFlight == InFlight <= 1

\* C2: no double-advance: every speaker entry receives at most one main-turn
\* assistant message.
C2_NoDoubleAdvance ==
  \A i \in SpeakerIds : Cardinality(MainTurnMessages(i)) <= 1

\* C3: whenever the state is AI_SPEAKING exactly one speaker entry has status
\* speaking (all others being waiting, finished or skipped).
C3_ExactlyOneSpeaking ==
  session.state = "AI_SPEAKING" => Cardinality(Speaking) = 1

\* C4: once the session state has been COMPLETED or ERROR, no later step
\* starts another speaker's turn or changes currentIndex.
C4_TerminalIsTerminal ==
  [][everTerminal =>
       /\ session'.currentIndex = session.currentIndex
       /\ ~TurnStarted]_vars

\* C5: a PAUSED session stays PAUSED until resume is called: no settling
\* turn or supplement moves it out of PAUSED, and no turn starts meanwhile.
C5_PausedUntilResume ==
  [][session.state = "PAUSED" =>
       /\ session'.state = "PAUSED" \/ lastCmd'.op = "resume"
       /\ ~TurnStarted]_vars

\* C6: pause issued while the state is AI_SPEAKING is rejected and leaves
\* the state AI_SPEAKING; PAUSED is entered only from a non-terminal state
\* other than AI_SPEAKING.
C6_NoPauseWhileSpeaking ==
  [][/\ (lastCmd'.op = "pause" /\ session.state = "AI_SPEAKING") =>
          (lastCmd'.outcome = "rejected" /\ session'.state = "AI_SPEAKING")
     /\ (session'.state = "PAUSED" /\ session.state # "PAUSED") =>
          session.state \notin (Terminal \cup {"AI_SPEAKING"})]_vars

\* C7: supplement rollback: when the responder call of a supplement has
\* failed and the rejection handler has run, the speaker's supplementCount
\* and the session state equal their values before supplement was called.
C7_SupplementRollback ==
  lastCmd.op = "supplementRejected" =>
    /\ session.speakers[lastCmd.call.speaker].supplementCount = lastCmd.call.preCount
    /\ session.state = lastCmd.call.preState

\* C8: a failed supplement leaves the message log as it was before the
\* supplement call (the follow-up user message is not left in the log).
C8_FailedSupplementLeavesLog ==
  lastCmd.op = "supplementRejected" =>
    Len(session.messages) = lastCmd.call.preLen

\* the command of this step was issued in a state that forbids it
ForbiddenCommand ==
  \/ lastCmd'.op \in {"next", "skip"} /\ session.state # "AI_FINISHED"
  \/ lastCmd'.op = "resume" /\ session.state # "PAUSED"
  \/ lastCmd'.op = "pause" /\ session.state \in {"COMPLETED", "ERROR"}
  \/ lastCmd'.op = "supplement" /\
       (session.state = "PAUSED" \/ lastCmd'.arg \notin SpeakerIds)
  \/ lastCmd'.op = "advance" /\ session.state \in {"PAUSED", "AI_SPEAKING"}

\* C9: a command issued in a state that forbids it is rejected and leaves
\* the session's state, currentIndex, speakers, messages and updatedAt
\* unchanged and emits no event.
C9_RejectedCommandChangesNothing ==
  [][ForbiddenCommand =>
       /\ lastCmd'.outcome = "rejected"
       /\ session' = session
       /\ lastCmd'.updates = 0
       /\ lastCmd'.events = 0]_vars

\* C9 happens: next was rejected while a speaker was responding (scenario E)
C9_Witness ==
  /\ lastCmd.op = "next"
  /\ lastCmd.outcome = "rejected"
  /\ session.state = "AI_SPEAKING"
  /\ InFlight > 0

\* C10: next and skip are accepted only in AI_FINISHED and resume only in
\* PAUSED; in every other state they fail at once, before any responder
\* call, and nothing is left behind to run later.
C10_GuardsOfNextSkipResume ==
  [][/\ lastCmd'.op \in {"next", "skip"} =>
          (lastCmd'.outcome = "rejected" <=> session.state # "AI_FINISHED")
     /\ lastCmd'.op = "resume" =>
          (lastCmd'.outcome = "rejected" <=> session.state # "PAUSED")
     /\ (lastCmd'.op \in {"next", "skip", "resume"} /\ lastCmd'.outcome = "rejected") =>
          (pending' = pending /\ lastCmd'.call = NoCall)]_vars

\* C10 happens: skip was rejected on a paused session
C10_Witness ==
  /\ lastCmd.op = "skip"
  /\ lastCmd.outcome = "rejected"
  /\ session.state = "PAUSED"

\* C11: currentIndex never decreases: every step, of a command or of a
\* settling call, leaves it equal or larger.
C11_CurrentIndexNeverDecreases ==
  [][session'.currentIndex >= session.currentIndex]_vars

\* C11 happens: currentIndex has been moved by a skip and by an answered turn
C11_Witness ==
  /\ session.currentIndex >= 2
  /\ \E i \in SpeakerIds : session.speakers[i].status = "skipped"
  /\ \E i \in SpeakerIds : session.speakers[i].status = "finished"

\* C12: whenever the state is COMPLETED every speaker entry is finished or
\* skipped and currentIndex equals speakers.length.
C12_CompletedMeansAllDone ==
  session.state = "COMPLETED" =>
    /\ \A i \in SpeakerIds : session.speakers[i].status \in {"finished", "skipped"}
    /\ session.currentIndex = Len(session.speakers)

MainTurnCount ==
  Cardinality({k \in 1..Len(session.messages) :
                 /\ session.messages[k].role = "assistant"
                 /\ ~session.messages[k].supplemental})

Statuses(s) == [i \in 1..Len(s.speakers) |-> s.speakers[i].status]

\* C13: the engine never auto-advances: a turn starts only in the step of a
\* startSession, next or advance call (never in a resume, a supplement or a
\* settling call), and once a turn has finished with AI_FINISHED no step other
\* than next, skip or advance changes currentIndex, the speaker statuses or
\* the number of main-turn assistant messages.
C13_NoAutoAdvance ==
  [][/\ TurnStarted => lastCmd'.op \in {"startSession", "next", "advance"}
     /\ (/\ session.state = "AI_FINISHED"
         /\ MainTurnCount > 0
         /\ lastCmd'.op \notin {"next", "skip", "advance"}) =>
          /\ session'.currentIndex = session.currentIndex
          /\ Statuses(session') = Statuses(session)
          /\ MainTurnCount' = MainTurnCount]_vars

TurnsInFlight == {c \in BagToSet(pending) : c.kind = "turn"}

\* C14: a skipped speaker is never answered: a speaker with status skipped
\* has no main-turn message, and whenever no turn is in flight the number of
\* main-turn messages equals the number of finished speakers.
C14_SkippedNeverAnswered ==
  /\ \A i \in SpeakerIds :
       session.speakers[i].status = "skipped" => MainTurnMessages(i) = {}
  /\ TurnsInFlight = {} =>
       MainTurnCount =
         Cardinality({i \in SpeakerIds : session.speakers[i].status = "finished"})

\* C15: the session startSession returns is the snapshot taken right after
\* creation: state INITIALIZING, currentIndex 0, every speaker waiting, the
\* log holding only the question, and no turn started before the return.
C15_StartSessionReturnsInitialSnapshot ==
  lastCmd.op = "startSession" =>
    /\ session.state = "INITIALIZING"
    /\ session.currentIndex = 0
    /\ \A i \in SpeakerIds : session.speakers[i].status = "waiting"
    /\ Len(session.messages) = 1
    /\ InFlight = 0

EnabledMembers(aiMembers) == SelectSeq(aiMembers, LAMBDA m : m.isEnabled)

\* C16: startSession builds one speaker entry per enabled room member, none
\* for a disabled one, in ascending order of the members' order.
C16_SpeakersAreEnabledMembers ==
  lastCmd.op = "startSession" =>
    LET enabled == EnabledMembers(lastCmd.arg)
    IN /\ Len(session.speakers) = Len(enabled)
       /\ \A i \in SpeakerIds : session.speakers[i].aiMemberId = enabled[i].id
       /\ \A i, j \in SpeakerIds :
            i < j => session.speakers[i].order <= session.speakers[j].order

\* C17: a main turn whose responder call succeeds appends exactly one
\* assistant message tagged with the turn's speaker, sets that speaker
\* finished, increases currentIndex by exactly 1, and sets the state to
\* COMPLETED if currentIndex then equals speakers.length and to AI_FINISHED
\* otherwise.
C17_TurnSuccess ==
  [][lastCmd'.op = "turnResolved" =>
       LET sp == lastCmd'.call.speaker
           n  == Len(session.messages)
       IN /\ Len(session'.messages) = n + 1
          /\ SubSeq(session'.messages, 1, n) = session.messages
          /\ session'.messages[n + 1].role = "assistant"
          /\ session'.messages[n + 1].speakerId = sp
          /\ ~session'.messages[n + 1].supplemental
          /\ session'.speakers[sp].status = "finished"
          /\ session'.currentIndex = session.currentIndex + 1
          /\ session'.state =
               IF session'.currentIndex = Len(session'.speakers)
                 THEN "COMPLETED" ELSE "AI_FINISHED"]_vars

\* C18: when the streaming call of a main turn fails the state becomes
\* ERROR, the error is re-raised (the promise of advance rejects),
\* currentIndex is unchanged and no message is appended.
C18_TurnFailure ==
  [][lastCmd'.op = "turnRejected" =>
       /\ session'.state = "ERROR"
       /\ lastCmd'.outcome = "rejects"
       /\ session'.currentIndex = session.currentIndex
       /\ session'.messages = session.messages]_vars

\* C18 happens: a turn's call failed while its speaker was speaking
C18_Witness ==
  /\ lastCmd.op = "turnRejected"
  /\ session.speakers[lastCmd.call.speaker].status = "speaking"
  /\ MainTurnMessages(lastCmd.call.speaker) = {}

\* C19: every failure of a main turn after its speaker was marked speaking
\* (the responder failing, or the turn's messages failing to build because
\* the room is gone from the store) leaves the session in ERROR.
C19_TurnFailureIsError ==
  (lastCmd.op = "turnRejected" \/ lastCmd.outcome = "threw") =>
    session.state = "ERROR"

\* C20: pause on a session that is already PAUSED changes nothing (updatedAt
\* included), emits no state event and starts nothing.
C20_PauseIdempotent ==
  [][(lastCmd'.op = "pause" /\ session.state = "PAUSED") =>
       /\ lastCmd'.outcome = "noop"
       /\ session' = session
       /\ lastCmd'.updates = 0
       /\ lastCmd'.events = 0
       /\ pending' = pending]_vars

\* C20 happens: pause was called twice in a row
C20_Witness ==
  /\ lastCmd.op = "pause"
  /\ lastCmd.outcome = "noop"
  /\ session.state = "PAUSED"

\* C21: pause fails when the state is COMPLETED or ERROR; otherwise it sets
\* the state to PAUSED and leaves currentIndex, every speaker entry and the
\* message log unchanged.
C21_PauseFrame ==
  [][lastCmd'.op = "pause" =>
       IF session.state \in {"COMPLETED", "ERROR"}
         THEN lastCmd'.outcome = "rejected" /\ session' = session
         ELSE /\ lastCmd'.outcome # "rejected"
              /\ session' = [session EXCEPT !.state = "PAUSED"]]_vars

\* C21 happens: a session with turn progress was paused
C21_Witness ==
  /\ lastCmd.op = "pause"
  /\ lastCmd.outcome = "ok"
  /\ session.currentIndex >= 1
  /\ Len(session.messages) >= 2

C23_SkipEffect ==
  [][(lastCmd'.op = "skip" /\ session.state = "AI_FINISHED") =>
       LET sp == session.currentIndex + 1
       IN /\ sp \in SpeakerIds
          /\ session'.speakers = [session.speakers EXCEPT ![sp].status = "skipped"]
          /\ session'.currentIndex = session.currentIndex + 1
          /\ session'.messages = session.messages
          /\ session'.state =
               IF session'.currentIndex >= Len(session.speakers)
                 THEN "COMPLETED" ELSE "AI_FINISHED"]_vars

\* advance, or next, issued with no speaker left
PastLastSpeaker ==
  /\ lastCmd'.op \in {"advance", "next"}
  /\ session.currentIndex >= Len(session.speakers)

\* C24 as stated: advance or next with currentIndex >= speakers.length always
\* sets the state to COMPLETED, without an error and without a responder
\* call, and a session with zero speakers is COMPLETED by the first advance.
C24_PastLastSpeakerAlwaysCompletes ==
  [][/\ PastLastSpeaker =>
          /\ session'.state = "COMPLETED"
          /\ lastCmd'.outcome \notin {"rejected", "threw"}
          /\ lastCmd'.call = NoCall
     /\ (lastCmd'.op = "startSession" /\ Len(session'.speakers) = 0) =>
          session'.state = "COMPLETED"]_vars

\* the state admits the command: advance outside PAUSED, AI_SPEAKING and
\* ERROR, next in AI_FINISHED
AdmitsAdvancing ==
  \/ lastCmd'.op = "advance" /\ session.state \notin {"PAUSED", "AI_SPEAKING", "ERROR"}
  \/ lastCmd'.op = "next" /\ session.state = "AI_FINISHED"

\* C24 amended: advance or next with currentIndex >= speakers.length never
\* makes a responder call; where the state admits the command (advance
\* outside PAUSED, AI_SPEAKING and ERROR, next in AI_FINISHED) it returns
\* without an error and leaves the state COMPLETED; and a session with zero
\* speakers is COMPLETED by the advance of startSession.
C24_PastLastSpeakerCompletes ==
  [][/\ PastLastSpeaker =>
          /\ lastCmd'.call = NoCall
          /\ pending' = pending
          /\ AdmitsAdvancing =>
               /\ session'.state = "COMPLETED"
               /\ lastCmd'.outcome \in {"completed", "noop"}
     /\ (lastCmd'.op = "startSession" /\ Len(session'.speakers) = 0) =>
          (session'.state = "COMPLETED" /\ lastCmd'.call = NoCall)]_vars

\* C24 happens: advance found no speaker left and completed a session that
\* has speakers
C24_Witness ==
  /\ lastCmd.op = "advance"
  /\ lastCmd.outcome = "completed"
  /\ session.state = "COMPLETED"
  /\ Len(session.speakers) > 0

OwnMessages(s, id) == {k \in 1..Len(s.messages) : s.messages[k].speakerId = id}

\* C26: the follow-up message supplement appends has parentId equal to the
\* id of the most recent message of that speaker in the log (none if the
\* speaker has no message); the answer appended when the supplement's call
\* resolves has parentId equal to that follow-up's id, the speaker's id as
\* speakerId and the supplemental tag; also when supplements overlap.
C26_SupplementLinks ==
  [][/\ (lastCmd'.op = "supplement" /\ lastCmd'.outcome # "rejected") =>
          LET n   == Len(session.messages)
              own == OwnMessages(session, lastCmd'.arg)
              f   == session'.messages[n + 1]
          IN /\ Len(session'.messages) = n + 1
             /\ f.role = "user"
             /\ \A k \in 1..n : session.messages[k].id # f.id
             /\ IF own = {} THEN f.parentId = 0
                ELSE \E k \in own : /\ \A j \in own : j <= k
                                    /\ f.parentId = session.messages[k].id
             /\ lastCmd'.outcome = "started" => lastCmd'.call.followup = f.id
     /\ lastCmd'.op = "supplementResolved" =>
          LET n == Len(session.messages)
              a == session'.messages[n + 1]
          IN /\ Len(session'.messages) = n + 1
             /\ a.role = "assistant"
             /\ a.speakerId = lastCmd'.call.speaker
             /\ a.supplemental
             /\ a.parentId = lastCmd'.call.followup
             /\ \E k \in 1..n : /\ session.messages[k].id = a.parentId
                                /\ session.messages[k].role = "user"]_vars

\* C26 happens: of two overlapping supplements the first was answered while
\* the second was in flight, its answer not following its follow-up in the log
C26_Witness ==
  /\ lastCmd.op = "supplementResolved"
  /\ \E c \in BagToSet(pending) : c.kind = "supplement"
  /\ session.messages[Len(session.messages)].parentId < Len(session.messages) - 1

SupplementCounts(s) == [i \in 1..Len(s.speakers) |-> s.speakers[i].supplementCount]

\* C27: a successful supplement leaves currentIndex and every speaker's
\* status unchanged (in the step that accepts it and in the step that
\* appends its answer), increases only the targeted speaker's
\* supplementCount by 1, and ends with state AI_FINISHED if currentIndex <
\* speakers.length and COMPLETED otherwise; after it, in AI_FINISHED, next
\* is accepted.
C27_SupplementFrame ==
  [][/\ (lastCmd'.op = "supplement" /\ lastCmd'.outcome = "started") =>
          /\ session'.currentIndex = session.currentIndex
          /\ Statuses(session') = Statuses(session)
          /\ SupplementCounts(session') =
               [SupplementCounts(session) EXCEPT ![lastCmd'.arg] = @ + 1]
     /\ lastCmd'.op = "supplementResolved" =>
          /\ session'.currentIndex = session.currentIndex
          /\ session'.speakers = session.speakers
          /\ session'.state =
               IF session.currentIndex < Len(session.speakers)
                 THEN "AI_FINISHED" ELSE "COMPLETED"
     /\ (/\ lastCmd.op = "supplementResolved"
         /\ session.state = "AI_FINISHED"
         /\ lastCmd'.op = "next") =>
          lastCmd'.outcome # "rejected"]_vars

\* C27 happens: a finished speaker of a COMPLETED session was supplemented
\* and the session is COMPLETED again
C27_Witness ==
  /\ lastCmd.op = "supplementResolved"
  /\ lastCmd.call.preState = "COMPLETED"
  /\ session.speakers[lastCmd.call.speaker].status = "finished"
  /\ session.speakers[lastCmd.call.speaker].supplementCount = lastCmd.call.preCount + 1
  /\ session.state = "COMPLETED"

\* C29: store and events agree: whenever the store holds the session, the
\* session read from it (state, currentIndex, speaker statuses and
\* supplementCount, message log) equals the snapshot the most recent state
\* event carried.
C29_StoreMatchesLastEvent ==
  store.session => session = lastEvent

\* C30: a successful supplement emits a complete event carrying the
\* supplemented speaker, as a successful main turn emits one carrying its
\* speaker.
C30_CompleteEventPerResult ==
  lastCmd.op \in {"turnResolved", "supplementResolved"} =>
    lastCmd.complete = lastCmd.call.speaker

\* the events listener l is due: those emitted while it was subscribed to
\* their session id, in emission order
Due(l) ==
  LET mine == SelectSeq(emitted, LAMBDA e : l \in e.to)
  IN [k \in 1..Len(mine) |-> mine[k].event]

\* C28: every emitted event is delivered in emission order, exactly once, to
\* each listener subscribed at that moment to the event's session id, to no
\* listener of another session id, and never to a listener that subscribed
\* after the emit: each listener has received exactly the events due to it.
C28_Delivery ==
  \A l \in ListenerIds : received[l] = Due(l)

\* what connection l wrote apart from heartbeats
Forwarded(l) == SelectSeq(streams[l].wire, LAMBDA x : x.event # "heartbeat")

\* the events of its session emitted since connection l took its snapshot and
\* until it closed, in emission order, as the endpoint writes them
DueOnStream(l) ==
  LET mine == SelectSeq(emitted, LAMBDA e : l \in e.to)
  IN [k \in 1..Len(mine) |->
        [event |-> mine[k].event.type, payload |-> mine[k].event.n]]

\* connection l wrote first the snapshot under the given event name, then
\* every event due to it and no other, and nothing since it closed; its
\* listener is in no bucket once it has closed
StreamDelivers(l, name) ==
  LET s == streams[l]
      snapshot == [event |-> name, payload |-> s.from]
  IN s.status \in {"open", "closed"} =>
       /\ s.wire[1] = snapshot
       /\ Forwarded(l) = <<snapshot>> \o DueOnStream(l)
       /\ s.status = "closed" =>
            /\ Len(s.wire) = s.closedAt
            /\ \A b \in 1..Len(buckets) : l \notin buckets[b]

C32_AdvanceGuards ==
  [][lastCmd'.op = "advance" =>
       /\ session.state \in {"PAUSED", "AI_SPEAKING"} =>
            (lastCmd'.outcome = "rejected" /\ session' = session /\ pending' = pending)
       /\ session.state \in {"COMPLETED", "ERROR"} =>
            /\ lastCmd'.outcome = "noop"
            /\ session' = session
            /\ lastCmd'.call = NoCall
            /\ pending' = pending
            /\ lastCmd'.updates = 0
            /\ lastCmd'.events = 0]_vars

\* C32 happens: advance returned on a session in ERROR
C32_Witness ==
  /\ lastCmd.op = "advance"
  /\ lastCmd.outcome = "noop"
  /\ session.state = "ERROR"

\* C33: the message log is append-only: the log after a step has the log
\* before the step as a prefix, and its first message is always the user
\* question.
C33_LogAppendOnly ==
  [][/\ Len(session'.messages) >= Len(session.messages)
     /\ SubSeq(session'.messages, 1, Len(session.messages)) = session.messages
     /\ session'.messages[1] = Question]_vars

\* C33 happens: the log holds a turn's answer, a follow-up left by a failed
\* supplement and what came after it
C33_Witness ==
  /\ MainTurnCount >= 1
  /\ \E k \in 2..(Len(session.messages) - 1) :
       /\ session.messages[k].role = "user"
       /\ lastCmd.op = "supplementRejected"
       /\ lastCmd.call.followup = session.messages[k].id

\* the supplemental answers of speaker i in the log
SupplementalAnswers(i) ==
  {k \in 1..Len(session.messages) :
     /\ session.messages[k].role = "assistant"
     /\ session.messages[k].speakerId = i
     /\ session.messages[k].supplemental}

SupplementsInFlight(i) ==
  {c \in BagToSet(pending) : c.kind = "supplement" /\ c.speaker = i}

\* C34: the bus holds a bucket for a session id if and only if at least one
\* listener is currently subscribed to it: unsubscribing the last listener
\* removes the bucket and a later subscribe creates one that receives events.
C34_BucketIffSubscribed ==
  \A sessionId \in SessionIds :
    listeners[sessionId] # 0 <=> \E l \in ListenerIds : Subscribed(l, sessionId)

\* C35: calling an unsubscribe function, once or again, removes no other
\* listener: every listener whose own subscription was not ended is in the
\* bucket the bus holds for its session id.
C35_UnsubscribeRemovesOnlyItsListener ==
  \A h \in active :
    /\ listeners[h.sessionId] # 0
    /\ h.listener \in buckets[listeners[h.sessionId]]

\* C36: whenever no supplement is in flight for a speaker, the speaker's
\* supplementCount equals the number of its supplemental answers in the log,
\* and supplementCount is never negative.
C36_SupplementCountMatchesLog ==
  \A i \in SpeakerIds :
    /\ session.speakers[i].supplementCount >= 0
    /\ SupplementsInFlight(i) = {} =>
         session.speakers[i].supplementCount = Cardinality(SupplementalAnswers(i))

\* C36 happens: of two overlapping supplements of one speaker the later one
\* was answered and the earlier one has then failed
C36_Witness ==
  /\ lastCmd.op = "supplementRejected"
  /\ SupplementsInFlight(lastCmd.call.speaker) = {}
  /\ \E k \in SupplementalAnswers(lastCmd.call.speaker) :
       session.messages[k].parentId > lastCmd.call.followup

\* C37: speaker statuses agree with currentIndex: every speaker at a position
\* below currentIndex is finished or skipped, every speaker at a position
\* above it is waiting (positions count from 0).
C37_StatusesAgreeWithIndex ==
  \A i \in SpeakerIds :
    /\ i - 1 < session.currentIndex =>
         session.speakers[i].status \in {"finished", "skipped"}
    /\ i - 1 > session.currentIndex =>
         session.speakers[i].status = "waiting"

\* C38: whenever some speaker has status speaking the session state is
\* AI_THINKING or AI_SPEAKING.
C38_SpeakingOnlyDuringTurn ==
  Speaking # {} => session.state \in {"AI_THINKING", "AI_SPEAKING"}

\* C39: whenever the session state is AI_FINISHED, currentIndex <
\* speakers.length: a session with no speaker left is never in AI_FINISHED.
C39_FinishedMeansSpeakerLeft ==
  session.state = "AI_FINISHED" => session.currentIndex < Len(session.speakers)

====
